---- MODULE Spec2Model ----
(***************************************************************************)
(* Model of the waypoint routes (game/server/waypoints/routes.py) and of   *)
(* the Qt view-model MapModel (qt_ui/widgets/map/model/mapmodel.py).       *)
(*                                                                         *)
(* The game domain (flights, flight plans, ATOs, theater) is the variable  *)
(* game; game_loaded says whether game_model.game is a Game or None.       *)
(* map_model holds the fields of the MapModel object, signals the Qt       *)
(* signals the last handler emitted (each with the value a listener reads  *)
(* from the associated property at that moment), and last the request and  *)
(* the response of the last handler that ran.                              *)
(***************************************************************************)
EXTENDS Integers, Sequences, FiniteSets, TLC

VARIABLES game_loaded, game, map_model, signals, last

vars == <<game_loaded, game, map_model, signals, last>>

\* ------------------------------------------------------------------ bounds

\* Length of the longest flight plan of the model (the plan of flight F1).
MaxWaypoints == 2

\* ----------------------------------------------------------- Python values

\* Optional[T]: None is the empty tuple, a value v is <<v>>.
None == <<>>

Some(v) == <<v>>

\* list.__getitem__(k) on a list of length n: the 1-based position addressed,
\* counting from the end for a negative k, or 0 when Python raises IndexError.
PyIndex(n, k) ==
    IF k >= 0
    THEN IF k < n THEN k + 1 ELSE 0
    ELSE IF 0 - k <= n THEN n + k + 1 ELSE 0

\* datetime.timedelta keeps (days, seconds, microseconds) with
\* 0 <= seconds < 86400 and 0 <= microseconds < 10^6.
timedelta(secs) ==
    [days |-> secs \div (24 * 60 * 60),
     seconds |-> secs % (24 * 60 * 60),
     microseconds |-> 0]

\* int(td.total_seconds()): the float days*86400 + seconds + microseconds/10^6
\* truncated toward zero.
int_total_seconds(td) ==
    LET whole == td.days * (24 * 60 * 60) + td.seconds
    IN  IF whole < 0 /\ td.microseconds > 0 THEN whole + 1 ELSE whole

\* str(td): "[D day[s], ]H:MM:SS[.ffffff]", kept as its fields.
str_timedelta(td) ==
    [days |-> td.days,
     hh |-> td.seconds \div 3600,
     mm |-> (td.seconds \div 60) % 60,
     ss |-> td.seconds % 60,
     ffffff |-> td.microseconds]

\* ------------------------------------------------------------ game domain

Flights == {"F1", "F2", "F3"}

\* flight.blue
FlightBlue(f) == f \in {"F1", "F2"}

\* flight.package
FlightPackage(f) == IF FlightBlue(f) THEN "P1" ELSE "P2"

\* package.flights
PackageFlights(p) == IF p = "P1" THEN <<"F1", "F2">> ELSE <<"F3">>

\* flight.departure.position
DeparturePosition(f) ==
    IF FlightBlue(f) THEN [x |-> 100, y |-> 200] ELSE [x |-> 900, y |-> 800]

\* The LatLon bodies a client posts.
LatLons == {[lat |-> 1, lng |-> 2], [lat |-> 3, lng |-> 1]}

\* theater.ll_to_point: a projection of a LatLon to map coordinates.
ll_to_point(ll) == [x |-> 10 * ll.lat + 5, y |-> 20 * ll.lng - 5]

\* theater.point_to_ll: the inverse projection.
point_to_ll(p) == [lat |-> (p.x - 5) \div 10, lng |-> (p.y + 5) \div 20]

\* A FlightWaypoint as the flight planner builds it.
FlightWaypoint(type, x, y, alt) ==
    [waypoint_type |-> type, x |-> x, y |-> y, alt |-> alt,
     alt_type |-> "BARO", latlng |-> None]

\* FlightWaypoint.is_movable is fixed by the waypoint type.
is_movable(waypoint) == waypoint.waypoint_type = "NAV"

\* The flight plans a game starts with: F1 has MaxWaypoints waypoints that
\* alternate movable and fixed, F2 a single fixed one, F3 none.
InitialPlan(f) ==
    LET n == IF f = "F1" THEN MaxWaypoints ELSE IF f = "F2" THEN 1 ELSE 0
    IN  [i \in 1..n |->
            FlightWaypoint(IF f = "F1" /\ i % 2 = 1 THEN "NAV" ELSE "LANDING_POINT",
                           1000 * i, 1000 * i + 1, 5000)]

\* FlightWaypoint.update_latlng(theater)
update_latlng(point) ==
    [point EXCEPT !.latlng = Some(point_to_ll([x |-> point.x, y |-> point.y]))]

\* AtoModel.find_matching_package_model(package): the PackageModel of the
\* side's ATO model that wraps the package, or None.
find_matching_package_model(g, blue, package) ==
    LET packages == IF blue THEN g.blue_ato ELSE g.red_ato
    IN  IF \E i \in 1..Len(packages) : packages[i] = package
        THEN Some(package) ELSE None

\* --------------------------------------------------------- waypoint routes

\* What a route leaves behind: the HTTP status ("500" is the IndexError that
\* FastAPI turns into an internal server error), the game afterwards, the body
\* (None and the empty string are both the empty tuple), the package models
\* update_tot() was called on, in call order, and the position in
\* flight_plan.waypoints of the waypoint the route fetched (0 for none).
Response(status, g, body, tot, waypoint) ==
    [status |-> status, game |-> g, body |-> body, update_tot |-> tot,
     waypoint |-> waypoint]

\* all_waypoints_for_flight with the departure inserted into the flight
\* plan's own list instead of a new one.
all_waypoints_inserting_departure(g, flight_id) ==
    LET departure == [FlightWaypoint("TAKEOFF",
                                     DeparturePosition(flight_id).x,
                                     DeparturePosition(flight_id).y,
                                     0)
                      EXCEPT !.alt_type = "RADIO"]
        points == [i \in 1..(Len(g.waypoints[flight_id]) + 1) |->
                      update_latlng((<<departure>> \o g.waypoints[flight_id])[i])]
    IN  Response("200", [g EXCEPT !.waypoints[flight_id] = points], points, <<>>, 0)

\* GET /waypoints/{flight_id}
all_waypoints_for_flight(g, flight_id) ==
    LET departure == [FlightWaypoint("TAKEOFF",
                                     DeparturePosition(flight_id).x,
                                     DeparturePosition(flight_id).y,
                                     0)
                      EXCEPT !.alt_type = "RADIO"]
        waypoints == [i \in 1..Len(g.waypoints[flight_id]) |->
                         update_latlng(g.waypoints[flight_id][i])]
        points == <<update_latlng(departure)>> \o waypoints
    IN  Response("200", [g EXCEPT !.waypoints[flight_id] = waypoints], points, <<>>, 0)

\* set_position without the is_movable check.
set_position_unchecked(g, flight_id, waypoint_idx, position) ==
    IF waypoint_idx = 0
    THEN Response("403", g, None, <<>>, 0)
    ELSE LET i == PyIndex(Len(g.waypoints[flight_id]), waypoint_idx - 1)
         IN  IF i = 0
             THEN Response("500", g, None, <<>>, 0)
             ELSE LET point == ll_to_point(position)
                      moved == [g EXCEPT !.waypoints[flight_id][i].x = point.x,
                                         !.waypoints[flight_id][i].y = point.y]
                      package_model ==
                          find_matching_package_model(
                              g, FlightBlue(flight_id), FlightPackage(flight_id))
                  IN  IF package_model = None
                      THEN Response("404", moved, None, <<>>, i)
                      ELSE Response("200", moved, None, package_model, i)

\* POST /waypoints/{flight_id}/{waypoint_idx}/position
set_position(g, flight_id, waypoint_idx, position) ==
    IF waypoint_idx = 0
    THEN Response("403", g, None, <<>>, 0)
    ELSE LET i == PyIndex(Len(g.waypoints[flight_id]), waypoint_idx - 1)
         IN  IF i = 0
             THEN Response("500", g, None, <<>>, 0)
             ELSE IF ~is_movable(g.waypoints[flight_id][i])
             THEN Response("403", g, None, <<>>, i)
             ELSE LET point == ll_to_point(position)
                      moved == [g EXCEPT !.waypoints[flight_id][i].x = point.x,
                                         !.waypoints[flight_id][i].y = point.y]
                      package_model ==
                          find_matching_package_model(
                              g, FlightBlue(flight_id), FlightPackage(flight_id))
                  IN  IF package_model = None
                      THEN Response("404", moved, None, <<>>, i)
                      ELSE Response("200", moved, None, package_model, i)

\* waypoint_timing asking for the departure time first.
waypoint_timing_depart_first(g, flight_id, waypoint_idx, takeoff_time, tot, depart) ==
    IF waypoint_idx = 0
    THEN Response("200", g, <<"Depart", str_timedelta(takeoff_time)>>, <<>>, 0)
    ELSE LET i == PyIndex(Len(g.waypoints[flight_id]), waypoint_idx - 1)
             prefix == IF depart = None THEN "TOT" ELSE "Depart"
             time == IF depart = None THEN tot ELSE depart
         IN  IF i = 0
             THEN Response("500", g, None, <<>>, 0)
             ELSE IF time = None
             THEN Response("200", g, <<>>, <<>>, i)
             ELSE Response("200", g,
                           <<prefix,
                             str_timedelta(timedelta(int_total_seconds(time[1])))>>,
                           <<>>, i)

\* GET /waypoints/{flight_id}/{waypoint_idx}/timing, given what the flight
\* plan answers: takeoff_time(), tot_for_waypoint(waypoint) and
\* depart_time_for_waypoint(waypoint) (each of the last two a timedelta or None).
waypoint_timing(g, flight_id, waypoint_idx, takeoff_time, tot, depart) ==
    IF waypoint_idx = 0
    THEN Response("200", g, <<"Depart", str_timedelta(takeoff_time)>>, <<>>, 0)
    ELSE LET i == PyIndex(Len(g.waypoints[flight_id]), waypoint_idx - 1)
             prefix == IF tot = None THEN "Depart" ELSE "TOT"
             time == IF tot = None THEN depart ELSE tot
         IN  IF i = 0
             THEN Response("500", g, None, <<>>, 0)
             ELSE IF time = None
             THEN Response("200", g, <<>>, <<>>, i)
             ELSE Response("200", g,
                           <<prefix,
                             str_timedelta(timedelta(int_total_seconds(time[1])))>>,
                           <<>>, i)

\* ---------------------------------------------------------------- theater

\* theater.controlpoints, in list order.
controlpoints == <<"CP1", "CP2", "CP3">>

\* control_point.captured
captured(cp) == cp \in {"CP1", "CP3"}

\* control_point.is_friendly(to_player)
is_friendly(cp, to_player) == captured(cp) = to_player

\* control_point.ground_objects: two ground objects may share a name (the
\* groups of one site), and a carrier group is a ground object that is the
\* control point itself.
ground_objects(cp) ==
    IF cp = "CP1"
    THEN <<[id |-> 1, name |-> "SAM", is_control_point |-> FALSE],
           [id |-> 2, name |-> "SAM", is_control_point |-> FALSE],
           [id |-> 3, name |-> "FACTORY", is_control_point |-> FALSE]>>
    ELSE IF cp = "CP2"
    THEN <<[id |-> 4, name |-> "FACTORY", is_control_point |-> FALSE],
           [id |-> 5, name |-> "EWR", is_control_point |-> FALSE]>>
    ELSE <<[id |-> 6, name |-> "CV", is_control_point |-> TRUE],
           [id |-> 7, name |-> "ARMOR", is_control_point |-> FALSE]>>

\* control_point.convoy_routes.items(): (destination, route) in dict order.
convoy_routes(cp) ==
    IF cp = "CP1"
    THEN <<<<"CP2", <<[x |-> 15, y |-> 35], [x |-> 25, y |-> 55]>>>>>>
    ELSE IF cp = "CP2"
    THEN <<<<"CP1", <<[x |-> 25, y |-> 55], [x |-> 15, y |-> 35]>>>>>>
    ELSE <<>>

\* control_point.shipping_lanes.items(): (destination, lane) in dict order.
shipping_lanes(cp) ==
    IF cp = "CP1"
    THEN <<<<"CP3", <<[x |-> 15, y |-> 35], [x |-> 45, y |-> 15]>>>>>>
    ELSE IF cp = "CP2"
    THEN <<<<"CP3", <<[x |-> 25, y |-> 55], [x |-> 45, y |-> 15]>>>>>>
    ELSE <<<<"CP1", <<[x |-> 45, y |-> 15], [x |-> 15, y |-> 35]>>>>,
           <<"CP2", <<[x |-> 45, y |-> 15], [x |-> 25, y |-> 55]>>>>>>

\* theater.conflicts(): the front lines of the theater.
conflicts == <<<<"CP1", "CP2">>>>

\* theater.terrain.map_view_default.position
map_view_default_position == [x |-> 35, y |-> 75]

\* ----------------------------------------------- presentation (Js) objects

ControlPointJs(c) == [control_point |-> c]

GroundObjectJs(tgo) == [tgo |-> tgo.id]

SupplyRouteJs(a, b, points, sea_route) ==
    [control_point_a |-> a, control_point_b |-> b, points |-> points,
     sea_route |-> sea_route]

FlightJs(flight, selected) == [flight |-> flight, selected |-> selected]

FrontLineJs(f) == [front_line |-> f]

\* ThreatZonesJs.empty()
ThreatZonesJs_empty == [zones |-> {}]

\* ThreatZonesJs.from_zones(game.threat_zone_for(player), theater)
ThreatZonesJs_from_zones(player) ==
    [zones |-> {controlpoints[i] : i \in {j \in 1..Len(controlpoints) :
                                              ~is_friendly(controlpoints[j], player)}}]

ThreatZoneContainerJs(blue, red) == [blue |-> blue, red |-> red]

NavMeshJs(blue, red) == [blue |-> blue, red |-> red]

\* NavMeshJs.from_game(game)
NavMeshJs_from_game ==
    NavMeshJs(<<ThreatZonesJs_from_zones(TRUE).zones>>,
              <<ThreatZonesJs_from_zones(FALSE).zones>>)

MapZonesJs(inclusion, exclusion, sea) ==
    [inclusion_zones |-> inclusion, exclusion_zones |-> exclusion, sea_zones |-> sea]

\* MapZonesJs.from_game(game)
MapZonesJs_from_game == MapZonesJs(<<"land">>, <<"lake">>, <<"sea">>)

\* list(UnculledZone.each_from_game(game)): a zone around every control point
\* and around the target of every package of the blue ATO.
UnculledZone_each_from_game(g) ==
    [i \in 1..Len(controlpoints) |-> [position |-> controlpoints[i]]]
        \o [i \in 1..Len(g.blue_ato) |-> [position |-> g.blue_ato[i]]]

\* ---------------------------------------------------------------- MapModel

\* The fields MapModel.__init__ sets before it connects the signals.
MapModel_fields ==
    [map_center |-> <<0, 0>>,
     control_points |-> <<>>,
     ground_objects |-> <<>>,
     supply_routes |-> <<>>,
     flights |-> <<>>,
     front_lines |-> <<>>,
     threat_zones |-> ThreatZoneContainerJs(ThreatZonesJs_empty, ThreatZonesJs_empty),
     navmeshes |-> NavMeshJs(<<>>, <<>>),
     map_zones |-> MapZonesJs(<<>>, <<>>, <<>>),
     unculled_zones |-> <<>>,
     selected_flight_index |-> None]

\* A running handler: the object's fields, whether game_model.game is a Game,
\* the signals emitted so far and the exception that ended it ("" for none).
Call(fields, loaded) ==
    [model |-> fields, loaded |-> loaded, emitted |-> <<>>, raised |-> ""]

\* Signal.emit: the listener's slot runs at once; value is the argument of the
\* signal or, for a notify signal, what the property getter returns then.
emit(self, signal, value) ==
    [self EXCEPT !.emitted = Append(@, [signal |-> signal, value |-> value])]

\* MapModel.game: raises RuntimeError when no game is loaded.
raise(self, exception) == [self EXCEPT !.raised = exception]

\* The concatenation of the sequences of a sequence (a nested for loop).
RECURSIVE chain(_)
chain(seqs) == IF seqs = <<>> THEN <<>> ELSE Head(seqs) \o chain(Tail(seqs))

\* A dict is the sequence of its (key, value) items in insertion order.
\* dict_index is the position of the key's item, or 0 when the key is absent.
dict_index(d, key) ==
    IF \E i \in 1..Len(d) : d[i][1] = key
    THEN CHOOSE i \in 1..Len(d) : d[i][1] = key
    ELSE 0

\* d1 | d2
dict_union(d1, d2) ==
    LET absent(item) == dict_index(d1, item[1]) = 0
    IN  [i \in 1..Len(d1) |->
            IF dict_index(d2, d1[i][1]) = 0 THEN d1[i]
            ELSE <<d1[i][1], d2[dict_index(d2, d1[i][1])][2]>>]
        \o SelectSeq(d2, absent)

\* list(d.values())
dict_values(d) == [i \in 1..Len(d) |-> d[i][2]]

\* MapModel.clear
clear(self) ==
    emit([self EXCEPT !.model =
              [MapModel_fields EXCEPT
                   !.map_center = self.model.map_center,
                   !.selected_flight_index = self.model.selected_flight_index]],
         "cleared", None)

\* MapModel._selected_flight: the position of the selected FlightJs in
\* self._flights, or 0 for None.
selected_flight(self) ==
    IF self.model.selected_flight_index = None
    THEN 0
    ELSE dict_index(self.model.flights,
                    <<TRUE, self.model.selected_flight_index[1],
                      self.model.selected_flight_index[2]>>)

\* FlightJs.set_selected on the item at position i of self._flights.
set_selected(self, i, value) ==
    [self EXCEPT !.model.flights[i][2].selected = value]

\* MapModel.deselect_current_flight
deselect_current_flight(self) ==
    IF selected_flight(self) = 0
    THEN self
    ELSE set_selected(self, selected_flight(self), FALSE)

\* MapModel.select_current_flight
select_current_flight(self) ==
    IF selected_flight(self) = 0
    THEN emit(self, "selectedFlightChanged", None)
    ELSE emit(set_selected(self, selected_flight(self), TRUE),
              "selectedFlightChanged",
              Some(self.model.flights[selected_flight(self)][2].flight))

\* MapModel.set_package_selection
set_package_selection(self, index) ==
    LET deselected == deselect_current_flight(self)
    IN  select_current_flight(
            [deselected EXCEPT !.model.selected_flight_index =
                 IF index = -1 THEN None ELSE <<index, 0>>])

\* MapModel.set_flight_selection
set_flight_selection(self, index) ==
    LET deselected == deselect_current_flight(self)
    IN  IF deselected.model.selected_flight_index = None
        THEN deselected
        ELSE select_current_flight(
                 [deselected EXCEPT !.model.selected_flight_index =
                      <<deselected.model.selected_flight_index[1], index>>])

\* MapModel.leaflet_coord_for
leaflet_coord_for(point) == <<point_to_ll(point).lat, point_to_ll(point).lng>>

\* MapModel.reset_map_center
reset_map_center(self) ==
    LET centered == [self EXCEPT !.model.map_center =
                         leaflet_coord_for(map_view_default_position)]
    IN  emit(centered, "mapCenterChanged", centered.model.map_center)

\* MapModel.on_game_load: game is TRUE for a Game and FALSE for None.
on_game_load(self, game_arg) ==
    IF game_arg THEN reset_map_center(self) ELSE self

\* MapModel._flights_in_ato
flights_in_ato(self, ato, blue) ==
    chain([p \in 1..Len(ato) |->
              [f \in 1..Len(PackageFlights(ato[p])) |->
                  <<<<blue, p - 1, f - 1>>,
                    FlightJs(PackageFlights(ato[p])[f],
                             blue /\ <<p - 1, f - 1>> = self.model.selected_flight_index)>>]])

\* MapModel.reset_atos
reset_atos(self, g) ==
    IF ~self.loaded
    THEN raise(self, "RuntimeError")
    ELSE LET assigned ==
                 [self EXCEPT !.model.flights =
                      dict_union(flights_in_ato(self, g.blue_ato, TRUE),
                                 flights_in_ato(self, g.red_ato, FALSE))]
         IN  emit(assigned, "flightsChanged", dict_values(assigned.model.flights))

\* MapModel.reset_control_points
reset_control_points(self, g) ==
    IF ~self.loaded
    THEN raise(self, "RuntimeError")
    ELSE LET assigned ==
                 [self EXCEPT !.model.control_points =
                      [i \in 1..Len(controlpoints) |-> ControlPointJs(controlpoints[i])]]
         IN  emit(assigned, "controlPointsChanged", assigned.model.control_points)

\* The loop of reset_ground_objects over the ground objects still to visit.
RECURSIVE ground_objects_loop(_, _, _)
ground_objects_loop(tgos, seen, out) ==
    IF tgos = <<>>
    THEN out
    ELSE IF Head(tgos).name \in seen
    THEN ground_objects_loop(Tail(tgos), seen, out)
    ELSE IF Head(tgos).is_control_point
    THEN ground_objects_loop(Tail(tgos), seen \cup {Head(tgos).name}, out)
    ELSE ground_objects_loop(Tail(tgos), seen \cup {Head(tgos).name},
                             Append(out, GroundObjectJs(Head(tgos))))

\* reset_ground_objects with the signal emitted before the list is built.
reset_ground_objects_emit_first(self, g) ==
    LET emptied == [self EXCEPT !.model.ground_objects = <<>>]
    IN  IF ~self.loaded
        THEN raise(emptied, "RuntimeError")
        ELSE LET emitted == emit(emptied, "groundObjectsChanged",
                                 emptied.model.ground_objects)
             IN  [emitted EXCEPT !.model.ground_objects =
                      ground_objects_loop(
                          chain([i \in 1..Len(controlpoints) |->
                                    ground_objects(controlpoints[i])]),
                          {}, emptied.model.ground_objects)]

\* MapModel.reset_ground_objects
reset_ground_objects(self, g) ==
    LET emptied == [self EXCEPT !.model.ground_objects = <<>>]
    IN  IF ~self.loaded
        THEN raise(emptied, "RuntimeError")
        ELSE LET built ==
                     [emptied EXCEPT !.model.ground_objects =
                          ground_objects_loop(
                              chain([i \in 1..Len(controlpoints) |->
                                        ground_objects(controlpoints[i])]),
                              {}, emptied.model.ground_objects)]
             IN  emit(built, "groundObjectsChanged", built.model.ground_objects)

\* The supply routes one control point adds in reset_routes, given the
\* control points seen so far (itself included).
routes_from(control_point, seen) ==
    LET convoy(item) == item[1] \notin seen
        shipping(item) ==
            item[1] \notin seen /\ is_friendly(control_point, captured(item[1]))
        convoys == SelectSeq(convoy_routes(control_point), convoy)
        lanes == SelectSeq(shipping_lanes(control_point), shipping)
    IN  [i \in 1..Len(convoys) |->
            SupplyRouteJs(control_point, convoys[i][1],
                          [k \in 1..Len(convoys[i][2]) |->
                              leaflet_coord_for(convoys[i][2][k])],
                          FALSE)]
        \o [i \in 1..Len(lanes) |->
               SupplyRouteJs(control_point, lanes[i][1],
                             [k \in 1..Len(lanes[i][2]) |->
                                 leaflet_coord_for(lanes[i][2][k])],
                             TRUE)]

\* The loop of reset_routes over the control points still to visit.
RECURSIVE routes_loop(_, _, _)
routes_loop(cps, seen, out) ==
    IF cps = <<>>
    THEN out
    ELSE routes_loop(Tail(cps), seen \cup {Head(cps)},
                     out \o routes_from(Head(cps), seen \cup {Head(cps)}))

\* MapModel.reset_routes
reset_routes(self, g) ==
    LET emptied == [self EXCEPT !.model.supply_routes = <<>>]
    IN  IF ~self.loaded
        THEN raise(emptied, "RuntimeError")
        ELSE LET built ==
                     [emptied EXCEPT !.model.supply_routes =
                          routes_loop(controlpoints, {}, emptied.model.supply_routes)]
             IN  emit(built, "supplyRoutesChanged", built.model.supply_routes)

\* MapModel.reset_front_lines
reset_front_lines(self, g) ==
    IF ~self.loaded
    THEN raise(self, "RuntimeError")
    ELSE LET assigned ==
                 [self EXCEPT !.model.front_lines =
                      [i \in 1..Len(conflicts) |-> FrontLineJs(conflicts[i])]]
         IN  emit(assigned, "frontLinesChanged", assigned.model.front_lines)

\* MapModel.reset_threat_zones
reset_threat_zones(self, g) ==
    IF ~self.loaded
    THEN raise(self, "RuntimeError")
    ELSE LET assigned ==
                 [self EXCEPT !.model.threat_zones =
                      ThreatZoneContainerJs(ThreatZonesJs_from_zones(TRUE),
                                            ThreatZonesJs_from_zones(FALSE))]
         IN  emit(assigned, "threatZonesChanged", assigned.model.threat_zones)

\* MapModel.reset_navmeshes
reset_navmeshes(self, g) ==
    IF ~self.loaded
    THEN raise(self, "RuntimeError")
    ELSE LET assigned == [self EXCEPT !.model.navmeshes = NavMeshJs_from_game]
         IN  emit(assigned, "navmeshesChanged", assigned.model.navmeshes)

\* MapModel.reset_map_zones
reset_map_zones(self, g) ==
    IF ~self.loaded
    THEN raise(self, "RuntimeError")
    ELSE LET assigned == [self EXCEPT !.model.map_zones = MapZonesJs_from_game]
         IN  emit(assigned, "mapZonesChanged", assigned.model.map_zones)

\* MapModel.reset_unculled_zones
reset_unculled_zones(self, g) ==
    IF ~self.loaded
    THEN raise(self, "RuntimeError")
    ELSE LET assigned ==
                 [self EXCEPT !.model.unculled_zones = UnculledZone_each_from_game(g)]
         IN  emit(assigned, "unculledZonesChanged", assigned.model.unculled_zones)

\* MapModel.on_package_change
on_package_change(self, g) == reset_unculled_zones(self, g)

\* MapModel.reset
reset(self, g) ==
    IF ~self.loaded
    THEN clear(self)
    ELSE reset_unculled_zones(
         reset_map_zones(
         reset_navmeshes(
         reset_threat_zones(
         reset_front_lines(
         reset_atos(
         reset_routes(
         reset_ground_objects(
         reset_control_points(self, g), g), g), g), g), g), g), g), g)

\* ------------------------------------------------------------ state machine

\* The waypoint indices a client asks for: every position of the longest
\* waypoint list, one past it, and as many negative ones.
WaypointIndices == (0 - (MaxWaypoints + 1))..(MaxWaypoints + 1)

\* The times a flight plan answers: 0:00:00, 0:00:59.999999, 1:01:01.5,
\* 1 day 0:00:05 and -0:00:01.5 (which timedelta keeps as -1 day, 23:59:58.5).
Timedeltas ==
    {[days |-> 0, seconds |-> 0, microseconds |-> 0],
     [days |-> 0, seconds |-> 59, microseconds |-> 999999],
     [days |-> 0, seconds |-> 3661, microseconds |-> 500000],
     [days |-> 1, seconds |-> 5, microseconds |-> 0],
     [days |-> -1, seconds |-> 86398, microseconds |-> 500000]}

\* The indices the selection signals of the package and flight lists carry.
PackageIndices == {-1, 0}

FlightIndices == {-1, 0, 1}

\* The game a campaign starts with.
InitialGame ==
    [blue_ato |-> <<"P1">>,
     red_ato |-> <<"P2">>,
     waypoints |-> [f \in Flights |-> InitialPlan(f)]]

\* The request and the outcome of a MapModel handler.
Handled(op, request, call) ==
    [op |-> op, request |-> request, status |-> call.raised, body |-> None,
     update_tot |-> <<>>, waypoint |-> 0]

\* The request and the outcome of a waypoint route.
Served(op, request, response) ==
    [op |-> op, request |-> request, status |-> response.status,
     body |-> response.body, update_tot |-> response.update_tot,
     waypoint |-> response.waypoint]

\* MapModel.__init__, with or without a game in the GameModel.
Init ==
    /\ game_loaded \in BOOLEAN
    /\ game = InitialGame
    /\ LET call == reset(Call(MapModel_fields, game_loaded), game)
       IN  /\ map_model = call.model
           /\ signals = call.emitted
           /\ last = Handled("__init__", <<>>, call)

\* A MapModel handler ran to its end or to its exception.
Ran(op, request, call) ==
    /\ map_model' = call.model
    /\ signals' = call.emitted
    /\ last' = Handled(op, request, call)
    /\ UNCHANGED <<game_loaded, game>>

\* A waypoint route answered a request; routes need a loaded game.
Answered(op, request, response) ==
    /\ game' = response.game
    /\ signals' = <<>>
    /\ last' = Served(op, request, response)
    /\ UNCHANGED <<game_loaded, map_model>>

\* GameModel.set_game: a game is loaded or the current one is closed.
SetGame ==
    /\ game_loaded' = ~game_loaded
    /\ signals' = <<>>
    /\ last' = [op |-> "set_game", request |-> <<>>, status |-> "", body |-> None,
                update_tot |-> <<>>, waypoint |-> 0]
    /\ UNCHANGED <<game, map_model>>

\* The player creates or deletes the package P1 of the blue ATO.
EditPackages ==
    /\ game_loaded
    /\ game' = [game EXCEPT !.blue_ato = IF @ = <<>> THEN <<"P1">> ELSE <<>>]
    /\ signals' = <<>>
    /\ last' = [op |-> "edit_packages", request |-> <<>>, status |-> "",
                body |-> None, update_tot |-> <<>>, waypoint |-> 0]
    /\ UNCHANGED <<game_loaded, map_model>>

Self == Call(map_model, game_loaded)

Reset == Ran("reset", <<>>, reset(Self, game))

OnGameLoad ==
    \E game_arg \in BOOLEAN :
        Ran("on_game_load", <<game_arg>>, on_game_load(Self, game_arg))

\* GameUpdateSignal.flight_paths_changed
ResetAtos == Ran("reset_atos", <<>>, reset_atos(Self, game))

\* AtoModel.packages_changed of either side
OnPackageChange == Ran("on_package_change", <<>>, on_package_change(Self, game))

\* GameUpdateSignal.package_selection_changed
SetPackageSelection ==
    \E index \in PackageIndices :
        Ran("set_package_selection", <<index>>, set_package_selection(Self, index))

\* GameUpdateSignal.flight_selection_changed
SetFlightSelection(indices) ==
    \E index \in indices :
        Ran("set_flight_selection", <<index>>, set_flight_selection(Self, index))

AllWaypointsForFlight(flights) ==
    /\ game_loaded
    /\ \E flight_id \in flights :
           Answered("all_waypoints_for_flight", <<flight_id>>,
                    all_waypoints_for_flight(game, flight_id))

SetPosition(flights, indices, positions) ==
    /\ game_loaded
    /\ \E flight_id \in flights, waypoint_idx \in indices, position \in positions :
           Answered("set_position", <<flight_id, waypoint_idx, position>>,
                    set_position(game, flight_id, waypoint_idx, position))

\* The flight plan answers takeoff_time() for index 0 and tot_for_waypoint
\* and depart_time_for_waypoint for the others; the answers the route does
\* not ask for are left at 0:00:00 and None.
WaypointTiming(flights, indices, times) ==
    /\ game_loaded
    /\ \E flight_id \in flights, waypoint_idx \in indices :
           \/ /\ waypoint_idx = 0
              /\ \E takeoff_time \in times :
                     Answered("waypoint_timing",
                              <<flight_id, waypoint_idx, takeoff_time, None, None>>,
                              waypoint_timing(game, flight_id, waypoint_idx,
                                              takeoff_time, None, None))
           \/ /\ waypoint_idx # 0
              /\ \E tot \in {None} \cup {Some(t) : t \in times},
                    depart \in {None} \cup {Some(t) : t \in times} :
                     Answered("waypoint_timing",
                              <<flight_id, waypoint_idx, timedelta(0), tot, depart>>,
                              waypoint_timing(game, flight_id, waypoint_idx,
                                              timedelta(0), tot, depart))

\* Every entry point of both modules, the waypoint routes on flight F1 with
\* one position and one time.
Next ==
    \/ SetGame
    \/ EditPackages
    \/ Reset
    \/ OnGameLoad
    \/ ResetAtos
    \/ OnPackageChange
    \/ SetPackageSelection
    \/ SetFlightSelection(FlightIndices)
    \/ AllWaypointsForFlight({"F1"})
    \/ SetPosition({"F1"}, -1..1, {[lat |-> 1, lng |-> 2]})
    \/ WaypointTiming({"F1"}, -1..1,
                      {[days |-> 0, seconds |-> 59, microseconds |-> 999999]})

Spec == Init /\ [][Next]_vars

\* The routes that read and write the waypoints, on every flight, index and
\* position.
NextRoutes ==
    \/ SetGame
    \/ EditPackages
    \/ AllWaypointsForFlight(Flights)
    \/ SetPosition(Flights, WaypointIndices, LatLons)

SpecRoutes == Init /\ [][NextRoutes]_vars

\* The timing route on every flight, index and time.
NextTiming ==
    \/ SetGame
    \/ WaypointTiming(Flights, WaypointIndices, Timedeltas)

SpecTiming == Init /\ [][NextTiming]_vars

\* MapModel with each of its reset operations called on its own.
NextMap ==
    \/ SetGame
    \/ EditPackages
    \/ Reset
    \/ OnGameLoad
    \/ ResetAtos
    \/ OnPackageChange
    \/ SetPackageSelection
    \/ SetFlightSelection({0})
    \/ Ran("reset_control_points", <<>>, reset_control_points(Self, game))
    \/ Ran("reset_ground_objects", <<>>, reset_ground_objects(Self, game))
    \/ Ran("reset_routes", <<>>, reset_routes(Self, game))
    \/ Ran("reset_front_lines", <<>>, reset_front_lines(Self, game))
    \/ Ran("reset_threat_zones", <<>>, reset_threat_zones(Self, game))
    \/ Ran("reset_navmeshes", <<>>, reset_navmeshes(Self, game))
    \/ Ran("reset_map_zones", <<>>, reset_map_zones(Self, game))
    \/ Ran("reset_unculled_zones", <<>>, reset_unculled_zones(Self, game))

SpecMap == Init /\ [][NextMap]_vars

\* ------------------------------------------------------------------ claims

\* The operations of the two modules (the other steps are the game's own).
RouteOps == {"all_waypoints_for_flight", "set_position", "waypoint_timing"}

MapModelOps ==
    {"reset", "on_game_load", "reset_atos", "on_package_change",
     "set_package_selection", "set_flight_selection", "reset_control_points",
     "reset_ground_objects", "reset_routes", "reset_front_lines",
     "reset_threat_zones", "reset_navmeshes", "reset_map_zones",
     "reset_unculled_zones"}

\* g2 is g1 but for the x and y of waypoint i of flight f, which are those of point.
MovedOnly(g1, g2, f, i, point) ==
    g2 = [g1 EXCEPT !.waypoints[f][i].x = point.x, !.waypoints[f][i].y = point.y]

\* g2 is g1 but for the latlng of the waypoints of flight f.
LatLngOnly(g1, g2, f) ==
    /\ Len(g2.waypoints[f]) = Len(g1.waypoints[f])
    /\ g2 = [g1 EXCEPT !.waypoints[f] =
                [i \in 1..Len(g1.waypoints[f]) |->
                    [g1.waypoints[f][i] EXCEPT !.latlng = g2.waypoints[f][i].latlng]]]

\* The game without the latlng that update_latlng caches on each waypoint:
\* the ATOs, the flight plans and the type, coordinates and altitude of
\* every waypoint.
WithoutLatLng(g) ==
    [g EXCEPT !.waypoints =
        [f \in Flights |->
            [i \in 1..Len(g.waypoints[f]) |->
                [g.waypoints[f][i] EXCEPT !.latlng = None]]]]

ResetOps ==
    {<<"reset_control_points", "control_points", "controlPointsChanged">>,
     <<"reset_ground_objects", "ground_objects", "groundObjectsChanged">>,
     <<"reset_routes", "supply_routes", "supplyRoutesChanged">>,
     <<"reset_atos", "flights", "flightsChanged">>,
     <<"reset_front_lines", "front_lines", "frontLinesChanged">>,
     <<"reset_threat_zones", "threat_zones", "threatZonesChanged">>,
     <<"reset_navmeshes", "navmeshes", "navmeshesChanged">>,
     <<"reset_map_zones", "map_zones", "mapZonesChanged">>,
     <<"reset_unculled_zones", "unculled_zones", "unculledZonesChanged">>}

PropertyValue(model, field) ==
    IF field = "flights" THEN dict_values(model.flights) ELSE model[field]

\* C2: with a game loaded, a reset operation changes no field of the MapModel
\* but its own cache, and emits its own signal once and no other signal, at
\* a moment when the property already returns the final value.
C2_ResetOwnCacheOnly ==
    [][\A r \in ResetOps :
          (last'.op = r[1] /\ game_loaded) =>
              /\ \A field \in DOMAIN map_model \ {r[2]} :
                     map_model'[field] = map_model[field]
              /\ last'.status = ""
              /\ signals' = <<[signal |-> r[3],
                               value |-> PropertyValue(map_model', r[2])]>>]_vars

\* C2 witness: reset_ground_objects ran with a game loaded on a MapModel built
\* without one: the ground objects are cached, the other caches still empty.
C2_Witness ==
    /\ last.op = "reset_ground_objects"
    /\ game_loaded
    /\ Len(signals) = 1
    /\ map_model.ground_objects # <<>>
    /\ map_model.control_points = <<>>
    /\ map_model.selected_flight_index # None

\* C3: after reset_atos (flight_paths_changed) and after on_package_change
\* (packages_changed), in every state, no game loaded included, the handler
\* has not raised and the cache equals the snapshot of the current game
\* state (nothing, when there is no game).
C3_HandlersResync ==
    /\ last.op = "reset_atos" =>
           /\ last.status = ""
           /\ map_model.flights =
                  IF game_loaded
                  THEN dict_union(
                           flights_in_ato(Self, game.blue_ato, TRUE),
                           flights_in_ato(Self, game.red_ato, FALSE))
                  ELSE <<>>
    /\ last.op = "on_package_change" =>
           /\ last.status = ""
           /\ map_model.unculled_zones =
                  IF game_loaded THEN UnculledZone_each_from_game(game) ELSE <<>>

\* C4: set_position answers 403 for waypoint_idx 0 and for a target waypoint
\* that is not movable, a 403 changes nothing and calls no update_tot, and
\* whatever the request the departure point and every waypoint that is not
\* movable keep their coordinates.
C4_FixedWaypointsStay ==
    [][last'.op = "set_position" =>
          LET flight_id == last'.request[1]
              waypoint_idx == last'.request[2]
              waypoints == game.waypoints[flight_id]
          IN  /\ waypoint_idx = 0 => last'.status = "403"
              /\ (waypoint_idx \in 1..Len(waypoints)
                      /\ ~is_movable(waypoints[waypoint_idx])) =>
                     last'.status = "403"
              /\ last'.status = "403" => game' = game /\ last'.update_tot = <<>>
              /\ \A f \in Flights :
                     /\ Len(game'.waypoints[f]) = Len(game.waypoints[f])
                     /\ all_waypoints_for_flight(game', f).body[1]
                            = all_waypoints_for_flight(game, f).body[1]
                     /\ \A i \in 1..Len(game.waypoints[f]) :
                            ~is_movable(game.waypoints[f][i]) =>
                                /\ game'.waypoints[f][i].x = game.waypoints[f][i].x
                                /\ game'.waypoints[f][i].y = game.waypoints[f][i].y]_vars

\* C4 witness: a waypoint of F1 has been moved, and the last request, for a
\* waypoint that is not movable, was answered 403.
C4_Witness ==
    /\ last.op = "set_position"
    /\ last.status = "403"
    /\ last.request[2] = 2
    /\ last.waypoint = 2
    /\ game.waypoints["F1"][1].x # InitialGame.waypoints["F1"][1].x

\* C5: set_position is all-or-nothing: ended by a 403 or a 404 it has changed
\* no waypoint coordinate and not called update_tot; answered 200 it has set
\* the x and y of the target waypoint, and nothing else, to the converted
\* position and called update_tot once, on the owning package model.
C5_AllOrNothing ==
    [][last'.op = "set_position" =>
          /\ last'.status \in {"403", "404"} =>
                 game' = game /\ last'.update_tot = <<>>
          /\ last'.status = "200" =>
                 /\ last'.waypoint \in 1..Len(game.waypoints[last'.request[1]])
                 /\ MovedOnly(game, game', last'.request[1], last'.waypoint,
                              ll_to_point(last'.request[3]))
                 /\ last'.update_tot = Some(FlightPackage(last'.request[1]))]_vars

\* The list all_waypoints_for_flight returns, as it would be for game g.
Points(g, f) == all_waypoints_for_flight(g, f).body

\* C6: all_waypoints_for_flight returns the TAKEOFF point at the departure
\* position (altitude 0, RADIO) followed by the waypoints of the flight plan;
\* the waypoint set_position moves and waypoint_timing reports on is the
\* element waypoint_idx of that list; a waypoint_idx that is negative or
\* greater than the number of waypoints addresses none, so that set_position
\* changes nothing for it.
C6_RoutesAgreeOnIndex ==
    [][LET flight_id == last'.request[1]
           waypoint_idx == last'.request[2]
           n == Len(game.waypoints[flight_id])
       IN  /\ last'.op = "all_waypoints_for_flight" =>
                  /\ Len(last'.body) = n + 1
                  /\ last'.body[1].waypoint_type = "TAKEOFF"
                  /\ last'.body[1].x = DeparturePosition(flight_id).x
                  /\ last'.body[1].y = DeparturePosition(flight_id).y
                  /\ last'.body[1].alt = 0
                  /\ last'.body[1].alt_type = "RADIO"
                  /\ \A i \in 1..n : last'.body[i + 1] = game'.waypoints[flight_id][i]
           /\ last'.op = "set_position" =>
                  /\ (waypoint_idx < 0 \/ waypoint_idx > n) => game' = game
                  /\ \A f \in Flights :
                         \A i \in 1..(Len(game.waypoints[f]) + 1) :
                             Points(game', f)[i] # Points(game, f)[i] =>
                                 f = flight_id /\ i = waypoint_idx + 1
           /\ last'.op = "waypoint_timing" /\ last'.waypoint # 0 =>
                  last'.waypoint = waypoint_idx]_vars

\* t <= n and t >= n for a timedelta t and a whole number of seconds n.
AtMost(td, n) ==
    \/ td.days * (24 * 60 * 60) + td.seconds < n
    \/ td.days * (24 * 60 * 60) + td.seconds = n /\ td.microseconds = 0

AtLeast(td, n) == td.days * (24 * 60 * 60) + td.seconds >= n

\* The whole seconds of a displayed "[D day[s], ]H:MM:SS".
DisplayedSeconds(text) ==
    text.days * (24 * 60 * 60) + text.hh * 3600 + text.mm * 60 + text.ss

\* text shows td cut to whole seconds: the whole number nearest to td between
\* 0 and td, and no fraction.
ShowsTruncated(text, td) ==
    /\ text.ffffff = 0
    /\ text.hh >= 0 /\ text.mm \in 0..59 /\ text.ss \in 0..59
    /\ IF AtLeast(td, 0)
       THEN /\ AtMost(td, DisplayedSeconds(text) + 1)
            /\ ~AtLeast(td, DisplayedSeconds(text) + 1)
            /\ AtLeast(td, DisplayedSeconds(text))
       ELSE /\ AtMost(td, DisplayedSeconds(text))
            /\ ~AtMost(td, DisplayedSeconds(text) - 1)

\* C7: waypoint_timing answers "Depart T+<takeoff_time>" for waypoint_idx 0;
\* for a waypoint of the flight plan it answers "TOT T+<t>" exactly when
\* tot_for_waypoint gives a time (whether or not there is a departure time),
\* else "Depart T+<t>" exactly when depart_time_for_waypoint gives one, else
\* the empty string, with t cut to whole seconds.
C7_TimingPrecedence ==
    last.op = "waypoint_timing" =>
        LET waypoint_idx == last.request[2]
            takeoff_time == last.request[3]
            tot == last.request[4]
            depart == last.request[5]
        IN  /\ waypoint_idx \in 0..Len(game.waypoints[last.request[1]]) =>
                   last.status = "200"
            /\ (last.status = "200" /\ waypoint_idx = 0) =>
                   /\ last.body[1] = "Depart"
                   /\ DisplayedSeconds(last.body[2])
                          = takeoff_time.days * (24 * 60 * 60) + takeoff_time.seconds
                   /\ last.body[2].ffffff = takeoff_time.microseconds
            /\ (last.status = "200" /\ waypoint_idx # 0) =>
                   /\ tot # None <=> (last.body # <<>> /\ last.body[1] = "TOT")
                   /\ (tot = None /\ depart # None)
                          <=> (last.body # <<>> /\ last.body[1] = "Depart")
                   /\ (tot = None /\ depart = None) <=> last.body = <<>>
                   /\ tot # None => ShowsTruncated(last.body[2], tot[1])
                   /\ (tot = None /\ depart # None) =>
                          ShowsTruncated(last.body[2], depart[1])

\* C7 witness: both a TOT with a fraction of a second and a departure time
\* were given, and the TOT was reported.
C7_Witness ==
    /\ last.op = "waypoint_timing"
    /\ last.status = "200"
    /\ last.request[2] # 0
    /\ last.request[4] # None
    /\ last.request[4][1].microseconds > 0
    /\ last.request[5] # None
    /\ last.request[5] # last.request[4]
    /\ last.body[1] = "TOT"

====
